---- MODULE Spec2Model ----
(***************************************************************************)
(* Model of the SecondMonitorToggle quick-settings toggle                  *)
(* (src/lib/toggle.js): the cached monitor registry, the snapshot store,   *)
(* the layout planner and the asynchronous toggle / make-primary state     *)
(* machine talking to the display-configuration service.                   *)
(*                                                                         *)
(* Data encoding.  A mode is [id, w, cur, pref]; a physical monitor is     *)
(* [conn, modes]; a logical monitor is [x, y, scale, transform, isPrimary, *)
(* mons] with mons a sequence of [conn, mode] assignments (mode = Null in  *)
(* a fetched logical monitor, which carries no mode id).  JavaScript's     *)
(* null / undefined is the string Null.  The snapshot object is a sequence *)
(* of entries in key insertion order (the order Object.entries yields).    *)
(***************************************************************************)
EXTENDS Integers, Sequences, FiniteSets, TLC

Null == "null"

(***************************************************************************)
(* Small sequence helpers.                                                 *)
(***************************************************************************)
\* Op applied to the value of v, which is computed once.
Bind(v, Op(_)) == CHOOSE r \in {Op(x) : x \in {v}} : TRUE

MinOf(S) == Bind(S, LAMBDA T : CHOOSE m \in T : \A v \in T : m <= v)

MaxOf(S) == Bind(S, LAMBDA T : CHOOSE m \in T : \A v \in T : m >= v)

\* Math.round(w / scale) for positive integers: floor(w/scale + 1/2).
RoundDiv(w, scale) == (2 * w + scale) \div (2 * scale)

Conns(lm) == {lm.mons[i].conn : i \in 1..Len(lm.mons)}

\* lm[5].some(m => m[0] === connector) over a list of logical monitors.
IsAssigned(lms, connector) == \E i \in 1..Len(lms) : connector \in Conns(lms[i])

\* lm[5][0]?.[0]
FirstConn(lm) == IF Len(lm.mons) = 0 THEN Null ELSE lm.mons[1].conn

NumPrimary(lms) == Cardinality({i \in 1..Len(lms) : lms[i].isPrimary})

\* A normalization that shifts x only.
normalizePositionsXOnly(lms) ==
    IF Len(lms) = 0 THEN lms
    ELSE LET minX == MinOf({lms[i].x : i \in 1..Len(lms)})
         IN  IF minX = 0 THEN lms
             ELSE [i \in 1..Len(lms) |-> [lms[i] EXCEPT !.x = @ - minX]]

\* A normalization that shifts each axis by the first entry's coordinate.
normalizePositionsByFirst(lms) ==
    IF Len(lms) = 0 THEN lms
    ELSE [i \in 1..Len(lms) |->
             [lms[i] EXCEPT !.x = @ - lms[1].x, !.y = @ - lms[1].y]]

(***************************************************************************)
(* normalizePositions: shift so that min(x) = 0 and min(y) = 0.            *)
(***************************************************************************)
normalizePositions(lms) ==
    IF Len(lms) = 0 THEN lms
    ELSE LET minX == MinOf({lms[i].x : i \in 1..Len(lms)})
             minY == MinOf({lms[i].y : i \in 1..Len(lms)})
         IN  IF minX = 0 /\ minY = 0 THEN lms
             ELSE [i \in 1..Len(lms) |->
                     [lms[i] EXCEPT !.x = @ - minX, !.y = @ - minY]]

\* A repair that keeps the last primary entry instead of the first.
fixPrimaryFlagsKeepsLast(lms) ==
    IF NumPrimary(lms) <= 1 THEN lms
    ELSE LET lastP == MaxOf({i \in 1..Len(lms) : lms[i].isPrimary})
         IN  [i \in 1..Len(lms) |->
                 IF lms[i].isPrimary /\ i # lastP
                 THEN [lms[i] EXCEPT !.isPrimary = FALSE]
                 ELSE lms[i]]

(***************************************************************************)
(* fixPrimaryFlags: with more than one primary, keep only the first.       *)
(***************************************************************************)
fixPrimaryFlags(lms) ==
    IF NumPrimary(lms) <= 1 THEN lms
    ELSE LET firstP == MinOf({i \in 1..Len(lms) : lms[i].isPrimary})
         IN  [i \in 1..Len(lms) |->
                 IF lms[i].isPrimary /\ i # firstP
                 THEN [lms[i] EXCEPT !.isPrimary = FALSE]
                 ELSE lms[i]]

(***************************************************************************)
(* Lookups in the physical monitor list and in the snapshot.               *)
(***************************************************************************)
\* this._monitors.find(p => p[0][0] === connector): index, 0 when absent.
PhysIndex(monitors, connector) ==
    IF \E i \in 1..Len(monitors) : monitors[i].conn = connector
    THEN MinOf({i \in 1..Len(monitors) : monitors[i].conn = connector})
    ELSE 0

\* this._snapshot[connector]: index of the entry, 0 when undefined.
SnapIndex(snap, connector) ==
    IF \E i \in 1..Len(snap) : snap[i].conn = connector
    THEN MinOf({i \in 1..Len(snap) : snap[i].conn = connector})
    ELSE 0

\* phys[1].find(mode => mode[6]['is-current']): id of the first, else Null.
CurrentModeId(modes) ==
    IF \E i \in 1..Len(modes) : modes[i].cur
    THEN modes[MinOf({i \in 1..Len(modes) : modes[i].cur})].id
    ELSE Null

PreferredModeId(modes) ==
    IF \E i \in 1..Len(modes) : modes[i].pref
    THEN modes[MinOf({i \in 1..Len(modes) : modes[i].pref})].id
    ELSE Null

\* A resolution that prefers the preferred mode to the current one.
resolveModeIdPreferredFirst(monitors, snap, connector) ==
    LET p == PhysIndex(monitors, connector)
    IN  IF p = 0 THEN Null
        ELSE LET modes == monitors[p].modes
                 s == SnapIndex(snap, connector)
                 snapMode == IF s = 0 THEN Null ELSE snap[s].modeId
             IN  IF snapMode # Null /\ \E i \in 1..Len(modes) : modes[i].id = snapMode
                 THEN snapMode
                 ELSE IF PreferredModeId(modes) # Null THEN PreferredModeId(modes)
                 ELSE IF CurrentModeId(modes) # Null THEN CurrentModeId(modes)
                 ELSE IF Len(modes) > 0 THEN modes[1].id
                 ELSE Null

(***************************************************************************)
(* _resolveModeId: snapshot mode if still offered, else the current mode,  *)
(* else the preferred mode, else the first mode; Null for an unknown       *)
(* connector or an empty mode list.                                        *)
(***************************************************************************)
resolveModeId(monitors, snap, connector) ==
    LET p == PhysIndex(monitors, connector)
    IN  IF p = 0 THEN Null
        ELSE LET modes == monitors[p].modes
                 s == SnapIndex(snap, connector)
                 snapMode == IF s = 0 THEN Null ELSE snap[s].modeId
             IN  IF snapMode # Null /\ \E i \in 1..Len(modes) : modes[i].id = snapMode
                 THEN snapMode
                 ELSE IF CurrentModeId(modes) # Null THEN CurrentModeId(modes)
                 ELSE IF PreferredModeId(modes) # Null THEN PreferredModeId(modes)
                 ELSE IF Len(modes) > 0 THEN modes[1].id
                 ELSE Null

\* phys[1].find(md => md[0] === mode)[1]: width of a mode of a connector.
ModeWidth(monitors, connector, modeId) ==
    LET modes == monitors[PhysIndex(monitors, connector)].modes
    IN  modes[MinOf({i \in 1..Len(modes) : modes[i].id = modeId})].w

(***************************************************************************)
(* Snapshot: the full-coverage predicate and the snapshot built from a     *)
(* fetched state.                                                          *)
(***************************************************************************)
allActive(monitors, lms) ==
    /\ Len(monitors) > 0
    /\ \A i \in 1..Len(monitors) : IsAssigned(lms, monitors[i].conn)

\* this._snapshot[conn] = entry: replace in place or append (insertion order).
SnapPut(snap, entry) ==
    IF SnapIndex(snap, entry.conn) = 0 THEN Append(snap, entry)
    ELSE [snap EXCEPT ![SnapIndex(snap, entry.conn)] = entry]

SnapEntry(monitors, lm, connector) ==
    LET p == PhysIndex(monitors, connector)
    IN  [conn |-> connector, x |-> lm.x, y |-> lm.y, scale |-> lm.scale,
         transform |-> lm.transform, isPrimary |-> lm.isPrimary,
         modeId |-> IF p = 0 THEN Null ELSE CurrentModeId(monitors[p].modes)]

RECURSIVE SnapOfMons(_, _, _, _)
SnapOfMons(monitors, lm, k, acc) ==
    IF k > Len(lm.mons) THEN acc
    ELSE SnapOfMons(monitors, lm, k + 1,
                    SnapPut(acc, SnapEntry(monitors, lm, lm.mons[k].conn)))

RECURSIVE SnapOfLms(_, _, _, _)
SnapOfLms(monitors, lms, k, acc) ==
    IF k > Len(lms) THEN acc
    ELSE SnapOfLms(monitors, lms, k + 1, SnapOfMons(monitors, lms[k], 1, acc))

buildSnapshot(monitors, lms) == SnapOfLms(monitors, lms, 1, <<>>)

(***************************************************************************)
(* Layout planner of _toggleMonitor.  A plan is [kind, layout, isActive]:  *)
(* kind "apply" (submit layout), "refetch" (abort after a reconciliation   *)
(* fetch) or "disabled" (abort through _disableToggle).                    *)
(***************************************************************************)
NoXml == [present |-> FALSE, scale |-> 1, transform |-> 0]

Plan(kind, layout, isActive) ==
    [kind |-> kind, layout |-> layout, isActive |-> isActive]

\* Drop the selected connector's assignment; drop emptied logical monitors.
RemoveConnector(lms, connector) ==
    LET stripped == [i \in 1..Len(lms) |->
                       [lms[i] EXCEPT !.mons =
                           SelectSeq(@, LAMBDA m : m.conn # connector)]]
    IN  SelectSeq(stripped, LAMBDA lm : Len(lm.mons) > 0)

\* finalLogicalMonitors[0][4] = true when no entry is primary.
PromoteFirst(lms) ==
    IF Len(lms) > 0 /\ NumPrimary(lms) = 0
    THEN [lms EXCEPT ![1].isPrimary = TRUE]
    ELSE lms

\* Single remaining monitor goes to origin.
SingleToOrigin(lms) ==
    IF Len(lms) = 1 THEN [lms EXCEPT ![1].x = 0, ![1].y = 0] ELSE lms

DisableLayout(lms, connector) ==
    PromoteFirst(SingleToOrigin(RemoveConnector(lms, connector)))

\* Rebuild each logical monitor around its first connector with a freshly
\* resolved mode id; drop those whose mode cannot be resolved.
ResolveAll(monitors, snap, lms) ==
    Bind(SelectSeq(lms, LAMBDA lm :
             resolveModeId(monitors, snap, FirstConn(lm)) # Null),
         LAMBDA kept :
             [i \in 1..Len(kept) |->
                 [kept[i] EXCEPT !.mons =
                     <<[conn |-> FirstConn(kept[i]),
                        mode |-> resolveModeId(monitors, snap, FirstConn(kept[i]))]>>]])

\* Restore every snapshot connector that still resolves to a mode.
RestoreFromSnapshot(monitors, snap) ==
    Bind(SelectSeq(snap, LAMBDA s :
             /\ resolveModeId(monitors, snap, s.conn) # Null
             /\ PhysIndex(monitors, s.conn) # 0),
         LAMBDA kept :
             [i \in 1..Len(kept) |->
                 [x |-> kept[i].x, y |-> kept[i].y, scale |-> kept[i].scale,
                  transform |-> kept[i].transform, isPrimary |-> kept[i].isPrimary,
                  mons |-> <<[conn |-> kept[i].conn,
                              mode |-> resolveModeId(monitors, snap, kept[i].conn)]>>]])

\* Rightmost edge of the current layout: max(0, x + round(width / scale)).
MaxRight(monitors, snap, lms) ==
    MaxOf({0} \cup
          {lms[i].x + RoundDiv(ModeWidth(monitors, FirstConn(lms[i]),
                                   resolveModeId(monitors, snap, FirstConn(lms[i]))),
                               lms[i].scale) :
             i \in {j \in 1..Len(lms) :
                      resolveModeId(monitors, snap, FirstConn(lms[j])) # Null}})

\* A placement at the left edge whatever the current layout.
PlaceRightAtOrigin(monitors, snap, lms, connector, xmlConf) ==
    Append(ResolveAll(monitors, snap, lms),
           [x |-> 0, y |-> 0,
            scale |-> xmlConf.scale, transform |-> xmlConf.transform,
            isPrimary |-> FALSE,
            mons |-> <<[conn |-> connector,
                        mode |-> resolveModeId(monitors, snap, connector)]>>])

PlaceRight(monitors, snap, lms, connector, xmlConf) ==
    Append(ResolveAll(monitors, snap, lms),
           [x |-> MaxRight(monitors, snap, lms), y |-> 0,
            scale |-> xmlConf.scale, transform |-> xmlConf.transform,
            isPrimary |-> FALSE,
            mons |-> <<[conn |-> connector,
                        mode |-> resolveModeId(monitors, snap, connector)]>>])

hasSnapshot(snap, connector) == SnapIndex(snap, connector) # 0 /\ Len(snap) > 1

\* A finalization without the test for an empty result.
FinalizeNoEmptyTest(monitors, snap, lms, isActive) ==
    Plan("apply", normalizePositions(ResolveAll(monitors, snap, lms)), isActive)

\* Finalization: re-resolve, abort on an empty result, normalize.
Finalize(monitors, snap, lms, isActive) ==
    Bind(ResolveAll(monitors, snap, lms),
         LAMBDA resolved :
             IF Len(resolved) = 0 THEN Plan("refetch", <<>>, isActive)
             ELSE Plan("apply", normalizePositions(resolved), isActive))

\* A planner that, with nothing left after the removal, submits the current
\* layout instead of aborting.
PlanToggleKeepsLast(monitors, lms, snap, connector, xmlConf) ==
    IF IsAssigned(lms, connector)
    THEN \* DISABLE
         IF Len(RemoveConnector(lms, connector)) = 0
         THEN Finalize(monitors, snap, lms, TRUE)
         ELSE Finalize(monitors, snap, DisableLayout(lms, connector), TRUE)
    ELSE \* ENABLE
         IF hasSnapshot(snap, connector)
         THEN Bind(fixPrimaryFlags(RestoreFromSnapshot(monitors, snap)),
                   LAMBDA restored :
                       Finalize(monitors, snap, PromoteFirst(restored), FALSE))
         ELSE IF PhysIndex(monitors, connector) = 0
              THEN Plan("disabled", <<>>, FALSE)
              ELSE IF resolveModeId(monitors, snap, connector) = Null
              THEN Plan("disabled", <<>>, FALSE)
              ELSE Bind(fixPrimaryFlags(
                            PlaceRight(monitors, snap, lms, connector, xmlConf)),
                        LAMBDA placed :
                            Finalize(monitors, snap, PromoteFirst(placed), FALSE))

PlanToggle(monitors, lms, snap, connector, xmlConf) ==
    IF IsAssigned(lms, connector)
    THEN \* DISABLE
         IF Len(RemoveConnector(lms, connector)) = 0
         THEN Plan("refetch", <<>>, TRUE)
         ELSE Finalize(monitors, snap, DisableLayout(lms, connector), TRUE)
    ELSE \* ENABLE
         IF hasSnapshot(snap, connector)
         THEN Bind(fixPrimaryFlags(RestoreFromSnapshot(monitors, snap)),
                   LAMBDA restored :
                       Finalize(monitors, snap, PromoteFirst(restored), FALSE))
         ELSE IF PhysIndex(monitors, connector) = 0
              THEN Plan("disabled", <<>>, FALSE)
              ELSE IF resolveModeId(monitors, snap, connector) = Null
              THEN Plan("disabled", <<>>, FALSE)
              ELSE Bind(fixPrimaryFlags(
                            PlaceRight(monitors, snap, lms, connector, xmlConf)),
                        LAMBDA placed :
                            Finalize(monitors, snap, PromoteFirst(placed), FALSE))

(***************************************************************************)
(* Layout of _makePrimary: the current layout with the primary flag set    *)
(* exactly on the logical monitors that hold the target connector.         *)
(***************************************************************************)
\* A make-primary layout that sets the flag on the target and clears none.
PlanMakePrimaryKeepsFlags(monitors, lms, snap, connector) ==
    LET flagged == [i \in 1..Len(lms) |->
                      [lms[i] EXCEPT !.isPrimary = @ \/ (connector \in Conns(lms[i]))]]
    IN  Bind(ResolveAll(monitors, snap, flagged), normalizePositions)

PlanMakePrimary(monitors, lms, snap, connector) ==
    LET flagged == [i \in 1..Len(lms) |->
                      [lms[i] EXCEPT !.isPrimary = (connector \in Conns(lms[i]))]]
    IN  Bind(ResolveAll(monitors, snap, flagged), normalizePositions)

(***************************************************************************)
(* The environment: states the display-configuration service can report.   *)
(* Every connector offers the modes m1 (width 3, preferred) and m2         *)
(* (width 2); an active connector has m1 flagged current.  A connector in  *)
(* its "alt" variant offers only m3 (width 2).                             *)
(***************************************************************************)
StdModes(active) ==
    <<[id |-> "m1", w |-> 3, cur |-> active, pref |-> TRUE],
      [id |-> "m2", w |-> 2, cur |-> FALSE, pref |-> FALSE]>>

AltModes(active) == <<[id |-> "m3", w |-> 2, cur |-> active, pref |-> FALSE]>>

PM(c, active) == [conn |-> c, modes |-> StdModes(active)]

PMAlt(c, active) == [conn |-> c, modes |-> AltModes(active)]

LM(x, y, scale, transform, isPrimary, connectors) ==
    [x |-> x, y |-> y, scale |-> scale, transform |-> transform,
     isPrimary |-> isPrimary,
     mons |-> [i \in 1..Len(connectors) |-> [conn |-> connectors[i], mode |-> Null]]]

St(mons, lms) == [mons |-> mons, lms |-> lms]

\* A and B both connected and both active (full coverage): side by side
\* (also with the primary flag on both, which ingest repairs), stacked with
\* a scaled B, and mirrored in one logical monitor.
BothActive ==
    {St(<<PM("A", TRUE), PM("B", TRUE)>>,
        <<LM(0, 0, 1, 0, p[1], <<"A">>), LM(3, 0, 1, 0, p[2], <<"B">>)>>) :
        p \in {<<TRUE, FALSE>>, <<FALSE, TRUE>>, <<TRUE, TRUE>>}}
    \cup
    {St(<<PM("A", TRUE), PM("B", TRUE)>>,
        <<LM(2, 1, 1, 1, pa, <<"A">>), LM(0, 0, 2, 0, ~pa, <<"B">>)>>) :
        pa \in BOOLEAN}
    \cup
    {St(<<PM("A", TRUE), PM("B", TRUE)>>, <<LM(0, 0, 1, 0, TRUE, <<"A", "B">>)>>)}

\* A and B both connected, one of them inactive.
OneActive ==
    {St(<<PM("A", TRUE), PM("B", FALSE)>>, <<LM(0, 0, 1, 0, TRUE, <<"A">>)>>),
     St(<<PM("A", FALSE), PM("B", TRUE)>>, <<LM(0, 0, 1, 0, TRUE, <<"B">>)>>),
     St(<<PMAlt("A", FALSE), PM("B", TRUE)>>, <<LM(0, 0, 1, 0, TRUE, <<"B">>)>>)}

\* Only one monitor connected.
SingleMonitor ==
    {St(<<PM("A", TRUE)>>, <<LM(0, 0, 1, 0, TRUE, <<"A">>)>>),
     St(<<PM("B", TRUE)>>, <<LM(0, 0, 1, 0, TRUE, <<"B">>)>>)}

ServiceStates == BothActive \cup OneActive \cup SingleMonitor

\* The same and six more: no monitor connected; A and B connected and both
\* off; A active at scale 2 with B off; B connected but offering no mode;
\* three monitors with the second physical monitor, B, top left; three
\* monitors mirrored in one logical monitor.
LayoutStates ==
    ServiceStates \cup
    {St(<<>>, <<>>),
     St(<<PM("A", TRUE), PM("B", TRUE), PM("C", TRUE)>>,
        <<LM(0, 0, 1, 0, TRUE, <<"A", "B", "C">>)>>),
     St(<<PM("A", FALSE), PM("B", FALSE)>>, <<>>),
     St(<<PM("A", TRUE), PM("B", FALSE)>>, <<LM(0, 0, 2, 0, TRUE, <<"A">>)>>),
     St(<<PM("A", TRUE), [conn |-> "B", modes |-> <<>>]>>,
        <<LM(0, 0, 1, 0, TRUE, <<"A">>)>>),
     St(<<PM("A", TRUE), PM("B", TRUE), PM("C", TRUE)>>,
        <<LM(0, 0, 1, 0, TRUE, <<"B">>), LM(3, 1, 1, 0, FALSE, <<"A">>),
          LM(6, 1, 1, 0, FALSE, <<"C">>)>>)}

\* The states the service reports in the specification of the whole state
\* machine: both active, either one inactive, either one alone.
CoreStates ==
    {St(<<PM("A", TRUE), PM("B", TRUE)>>,
        <<LM(0, 0, 1, 0, TRUE, <<"A">>), LM(3, 0, 1, 0, FALSE, <<"B">>)>>),
     St(<<PM("A", TRUE), PM("B", FALSE)>>, <<LM(0, 0, 1, 0, TRUE, <<"A">>)>>),
     St(<<PM("A", TRUE)>>, <<LM(0, 0, 1, 0, TRUE, <<"A">>)>>),
     St(<<PM("B", TRUE)>>, <<LM(0, 0, 1, 0, TRUE, <<"B">>)>>)}

\* What loadMonitorConfigFromMonitorsXML can return for a connector.
XmlConfs == {NoXml, [present |-> TRUE, scale |-> 2, transform |-> 1]}

\* The 'monitor-setting' key of the settings store.
SavedConnectors == {""}

MaxSerial == 2
MaxPending == 1

(***************************************************************************)
(* State of one SecondMonitorToggle instance and of its environment.       *)
(***************************************************************************)
VARIABLES
    _proxy,                   \* "proxy" or Null (after destroy)
    _monitorsChangedId,       \* TRUE while the MonitorsChanged handler is connected
    _monitors,                \* cached physical monitors
    _logicalMonitors,         \* cached logical monitors
    _serial,                  \* cached serial
    _snapshot,                \* snapshot store
    _monitor,                 \* selected connector or Null
    _toggling,                \* single-flight flag
    _configRefreshTimeoutId,  \* "none", "plain" or "onSuccess" (the callback armed)
    _primaryDialogTimeoutId,  \* TRUE while the prompt timer is armed
    _makePrimaryDialog,       \* connector of the open prompt or Null
    checked,
    sensitive,
    calls,                    \* asynchronous calls in flight and their continuations
    svcSerial,                \* the service's current serial
    savedConnector,           \* settings: 'monitor-setting'
    sources                   \* GLib timeout sources outstanding, per callback

vars == <<_proxy, _monitorsChangedId, _monitors, _logicalMonitors, _serial,
          _snapshot, _monitor, _toggling, _configRefreshTimeoutId,
          _primaryDialogTimeoutId, _makePrimaryDialog, checked, sensitive,
          calls, svcSerial, savedConnector, sources>>

\* The callbacks a timeout source can carry: the two of _scheduleConfigRefresh
\* (without and with onSuccess) and the one that shows the prompt.
SourceKinds == {"plain", "onSuccess", "prompt"}

\* A call in flight with the locals of its continuation.  op: "init", "bg" (a
\* fetch outside any operation), "toggle", "mp"; stage: "init", "fetch",
\* "refetch", "apply".  An apply call carries the serial and the layout it was
\* sent with; a fetch is answered with the serial current at its reply.
Call(op, stage, serial, onSuccess, isActive, layout, conn) ==
    [op |-> op, stage |-> stage, serial |-> serial, onSuccess |-> onSuccess,
     isActive |-> isActive, layout |-> layout, conn |-> conn]

FetchCall(op, stage, onSuccess, conn) ==
    Call(op, stage, 0, onSuccess, FALSE, <<>>, conn)

BgFetches == {c \in calls : c.op = "bg"}

\* The serial a fetch reply carries: the one the service stamped on it when
\* it answered, or the current one when answer and delivery are one step.
ReplySerial(c) == IF c.serial = 0 THEN svcSerial ELSE c.serial

Init ==
    /\ _proxy = "proxy"
    /\ _monitorsChangedId = FALSE
    /\ _monitors = <<>>
    /\ _logicalMonitors = <<>>
    /\ _serial = 0
    /\ _snapshot = <<>>
    /\ _monitor = Null
    /\ _toggling = FALSE
    /\ _configRefreshTimeoutId = "none"
    /\ _primaryDialogTimeoutId = FALSE
    /\ _makePrimaryDialog = Null
    /\ checked = FALSE
    /\ sensitive = TRUE
    /\ svcSerial = 1
    /\ calls = {Call("init", "init", 0, FALSE, FALSE, <<>>, Null)}
    /\ savedConnector \in SavedConnectors
    /\ sources = [k \in SourceKinds |-> 0]

(***************************************************************************)
(* The object's fields as one record, so that the steps of a handler       *)
(* compose as functions.                                                   *)
(***************************************************************************)
This ==
    [serial |-> _serial, monitors |-> _monitors,
     logicalMonitors |-> _logicalMonitors, snapshot |-> _snapshot,
     monitor |-> _monitor, toggling |-> _toggling,
     refreshTimer |-> _configRefreshTimeoutId,
     promptTimer |-> _primaryDialogTimeoutId,
     sources |-> sources,
     checked |-> checked, sensitive |-> sensitive]

Commit(o) ==
    /\ _serial' = o.serial
    /\ _monitors' = o.monitors
    /\ _logicalMonitors' = o.logicalMonitors
    /\ _snapshot' = o.snapshot
    /\ _monitor' = o.monitor
    /\ _toggling' = o.toggling
    /\ _configRefreshTimeoutId' = o.refreshTimer
    /\ _primaryDialogTimeoutId' = o.promptTimer
    /\ sources' = o.sources
    /\ checked' = o.checked
    /\ sensitive' = o.sensitive

\* _disableToggle
disableToggle(o) ==
    IF _proxy = Null THEN o
    ELSE [o EXCEPT !.checked = FALSE, !.sensitive = FALSE]

\* The connector selected by the first fetch that reports a monitor.
SelectMonitor(monitors) ==
    IF savedConnector # "" /\ PhysIndex(monitors, savedConnector) # 0
    THEN savedConnector
    ELSE IF Len(monitors) = 1 THEN monitors[1].conn
    ELSE monitors[2].conn

\* The ingest without the full-coverage test before the snapshot is written.
IngestAnyCoverage(o, st, serial) ==
    LET lms == fixPrimaryFlags(st.lms)
        sel == IF o.monitor = Null /\ Len(st.mons) > 0
               THEN SelectMonitor(st.mons) ELSE o.monitor
    IN  [o EXCEPT !.serial = serial,
                  !.monitors = st.mons,
                  !.logicalMonitors = lms,
                  !.snapshot = buildSnapshot(st.mons, lms),
                  !.monitor = sel,
                  !.checked = IsAssigned(lms, sel),
                  !.sensitive = TRUE]

\* Body of the try block of _getMonitorConfig after a successful reply.
Ingest(o, st, serial) ==
    LET lms == fixPrimaryFlags(st.lms)
        sel == IF o.monitor = Null /\ Len(st.mons) > 0
               THEN SelectMonitor(st.mons) ELSE o.monitor
    IN  [o EXCEPT !.serial = serial,
                  !.monitors = st.mons,
                  !.logicalMonitors = lms,
                  !.snapshot = IF allActive(st.mons, lms)
                               THEN buildSnapshot(st.mons, lms) ELSE @,
                  !.monitor = sel,
                  !.checked = IsAssigned(lms, sel),
                  !.sensitive = TRUE]

\* The fetch whose continuation does not compare the client it started with.
getMonitorConfigNoIdentityCheck(o, ok, st, serial) ==
    IF ok THEN Ingest(o, st, serial) ELSE disableToggle(o)

\* _getMonitorConfig from the reply on: ingest, or disable on an error; a
\* no-op when the proxy is no longer the one the call was made on.
getMonitorConfig(o, ok, st, serial) ==
    IF _proxy = Null THEN o
    ELSE IF ok THEN Ingest(o, st, serial)
    ELSE disableToggle(o)

\* _clearTimeout: the tracked source, if any, is removed.
clearTimeout(o, timeoutProp) ==
    IF timeoutProp = "_configRefreshTimeoutId"
    THEN IF o.refreshTimer = "none" THEN o
         ELSE [o EXCEPT !.sources[o.refreshTimer] = @ - 1,
                        !.refreshTimer = "none"]
    ELSE IF ~o.promptTimer THEN o
         ELSE [o EXCEPT !.sources["prompt"] = @ - 1, !.promptTimer = FALSE]

\* Tracking of a new source without the removal of the previous one.
resetTimeoutNoClear(o, timeoutProp, callback) ==
    IF timeoutProp = "_configRefreshTimeoutId"
    THEN [o EXCEPT !.sources[callback] = @ + 1, !.refreshTimer = callback]
    ELSE [o EXCEPT !.sources[callback] = @ + 1, !.promptTimer = TRUE]

\* _resetTimeout
resetTimeout(o, timeoutProp, callback) ==
    LET o1 == clearTimeout(o, timeoutProp)
    IN  IF timeoutProp = "_configRefreshTimeoutId"
        THEN [o1 EXCEPT !.sources[callback] = @ + 1, !.refreshTimer = callback]
        ELSE [o1 EXCEPT !.sources[callback] = @ + 1, !.promptTimer = TRUE]

\* _scheduleConfigRefresh
scheduleConfigRefresh(o, kind) ==
    IF _proxy = Null THEN o
    ELSE resetTimeout(o, "_configRefreshTimeoutId", kind)

(***************************************************************************)
(* Actions.                                                                *)
(***************************************************************************)
Finish(c, o) == calls' = calls \ {c} /\ Commit(o)

Continue(c, next, o) == calls' = (calls \ {c}) \cup {next} /\ Commit(o)

\* The callback of the DisplayConfigProxy constructor.
InitReply ==
    \E c \in calls, ok \in BOOLEAN :
        /\ c.op = "init"
        /\ IF _proxy = Null
           THEN Finish(c, This) /\ UNCHANGED _monitorsChangedId
           ELSE IF ~ok
           THEN Finish(c, disableToggle(This)) /\ UNCHANGED _monitorsChangedId
           ELSE /\ _monitorsChangedId' = TRUE
                /\ Continue(c, FetchCall("bg", "fetch", FALSE, Null), This)
        /\ UNCHANGED <<_proxy, _makePrimaryDialog, svcSerial, savedConnector>>

\* The MonitorsChanged signal handler.
MonitorsChanged ==
    /\ _monitorsChangedId
    /\ IF _proxy # Null /\ ~_toggling
       THEN /\ Cardinality(BgFetches) < MaxPending
            /\ calls' = calls \cup {FetchCall("bg", "fetch", FALSE, Null)}
       ELSE UNCHANGED calls
    /\ UNCHANGED <<_proxy, _monitorsChangedId, _monitors, _logicalMonitors, _serial,
                   _snapshot, _monitor, _toggling, _configRefreshTimeoutId,
                   _primaryDialogTimeoutId, _makePrimaryDialog, checked, sensitive,
                   svcSerial, savedConnector, sources>>

\* The 'clicked' handler without the test of _toggling.
ClickUnguarded ==
    /\ IF _proxy = Null
       THEN UNCHANGED <<_toggling, calls>>
       ELSE /\ _toggling' = TRUE
            /\ calls' = calls \cup {FetchCall("toggle", "fetch", FALSE, Null)}
    /\ UNCHANGED <<_proxy, _monitorsChangedId, _monitors, _logicalMonitors, _serial,
                   _snapshot, _monitor, _configRefreshTimeoutId,
                   _primaryDialogTimeoutId, _makePrimaryDialog, checked, sensitive,
                   svcSerial, savedConnector, sources>>

\* The 'clicked' handler: _toggleMonitor up to its first await.
Click ==
    /\ IF _proxy = Null \/ _toggling
       THEN UNCHANGED <<_toggling, calls>>
       ELSE /\ _toggling' = TRUE
            /\ calls' = calls \cup {FetchCall("toggle", "fetch", FALSE, Null)}
    /\ UNCHANGED <<_proxy, _monitorsChangedId, _monitors, _logicalMonitors, _serial,
                   _snapshot, _monitor, _configRefreshTimeoutId,
                   _primaryDialogTimeoutId, _makePrimaryDialog, checked, sensitive,
                   svcSerial, savedConnector, sources>>

\* A fetch made outside any operation completes (initial, notification or timer).
\* The .then of _scheduleConfigRefresh: onSuccess once _getMonitorConfig settles.
afterRefresh(c, o) ==
    IF c.onSuccess /\ _proxy # Null THEN [o EXCEPT !.sensitive = TRUE] ELSE o

BgFetchStep(c, ok, st) ==
    /\ c.op = "bg"
    /\ \E o \in {afterRefresh(c, getMonitorConfig(This, ok, st, ReplySerial(c)))} :
          Finish(c, o)
    /\ UNCHANGED <<_proxy, _monitorsChangedId, _makePrimaryDialog, svcSerial,
                   savedConnector>>

BgFetchReply(W) ==
    \E c \in calls, ok \in BOOLEAN, st \in W : BgFetchStep(c, ok, st)

\* _toggleMonitor from the reply of its fetch to its next await or its end.
ToggleAfterFetch(c, o1, xmlConf) ==
    \E plan \in {PlanToggle(o1.monitors, o1.logicalMonitors, o1.snapshot,
                           o1.monitor, xmlConf)} :
        IF _proxy = Null THEN Finish(c, [o1 EXCEPT !.toggling = FALSE])
        ELSE IF plan.kind = "refetch"
        THEN Continue(c, FetchCall("toggle", "refetch", FALSE, Null), o1)
        ELSE IF plan.kind = "disabled"
        THEN Finish(c, [disableToggle(o1) EXCEPT !.toggling = FALSE])
        ELSE Continue(c, Call("toggle", "apply", o1.serial, FALSE, plan.isActive,
                              plan.layout, o1.monitor), o1)

ToggleFetchStep(c, ok, st, xmlConf) ==
    /\ c.op = "toggle" /\ c.stage = "fetch"
    /\ \E o1 \in {getMonitorConfig(This, ok, st, ReplySerial(c))} :
          ToggleAfterFetch(c, o1, xmlConf)
    /\ UNCHANGED <<_proxy, _monitorsChangedId, _makePrimaryDialog, svcSerial,
                   savedConnector>>

ToggleFetchReply(W) ==
    \E c \in calls, ok \in BOOLEAN, st \in W, xmlConf \in XmlConfs :
        ToggleFetchStep(c, ok, st, xmlConf)

\* The reconciliation fetch of an aborted toggle completes; finally.
ToggleRefetchReply(W) ==
    \E c \in calls, ok \in BOOLEAN, st \in W :
        /\ c.op = "toggle" /\ c.stage = "refetch"
        /\ \E o \in {getMonitorConfig(This, ok, st, ReplySerial(c))} :
              Finish(c, [o EXCEPT !.toggling = FALSE])
        /\ UNCHANGED <<_proxy, _monitorsChangedId, _makePrimaryDialog, svcSerial,
                       savedConnector>>

\* The prompt timer armed after a disable as well.
schedulePromptAlways(o, isActive) ==
    resetTimeout(o, "_primaryDialogTimeoutId", "prompt")

\* After re-enabling, the prompt is scheduled.
schedulePrompt(o, isActive) ==
    IF ~isActive THEN resetTimeout(o, "_primaryDialogTimeoutId", "prompt") ELSE o

\* The completion with _toggling cleared on the success path only.
ToggleApplyResultNoFinally(c, ok, o) ==
    IF _proxy = Null THEN [o EXCEPT !.toggling = FALSE]
    ELSE IF ok
    THEN [schedulePrompt(
              scheduleConfigRefresh([o EXCEPT !.checked = ~c.isActive], "plain"),
              c.isActive)
            EXCEPT !.toggling = FALSE]
    ELSE scheduleConfigRefresh(disableToggle(o), "onSuccess")

\* The completion whose catch block schedules no reconciliation fetch.
ToggleApplyResultNoRefresh(c, ok, o) ==
    IF _proxy = Null THEN [o EXCEPT !.toggling = FALSE]
    ELSE IF ok
    THEN [schedulePrompt(
              scheduleConfigRefresh([o EXCEPT !.checked = ~c.isActive], "plain"),
              c.isActive)
            EXCEPT !.toggling = FALSE]
    ELSE [disableToggle(o) EXCEPT !.toggling = FALSE]

\* The completion that leaves checked as it is.
ToggleApplyResultNoFlip(c, ok, o) ==
    IF _proxy = Null THEN [o EXCEPT !.toggling = FALSE]
    ELSE IF ok
    THEN [schedulePrompt(scheduleConfigRefresh(o, "plain"), c.isActive)
            EXCEPT !.toggling = FALSE]
    ELSE [scheduleConfigRefresh(disableToggle(o), "onSuccess")
            EXCEPT !.toggling = FALSE]

\* ApplyMonitorsConfig of a toggle completes; finally.
ToggleApplyResult(c, ok, o) ==
    IF _proxy = Null THEN [o EXCEPT !.toggling = FALSE]
    ELSE IF ok
    THEN [schedulePrompt(
              scheduleConfigRefresh([o EXCEPT !.checked = ~c.isActive], "plain"),
              c.isActive)
            EXCEPT !.toggling = FALSE]
    ELSE [scheduleConfigRefresh(disableToggle(o), "onSuccess")
            EXCEPT !.toggling = FALSE]

ToggleApplyStep(c, ok) ==
    /\ c.op = "toggle" /\ c.stage = "apply"
    /\ \E o \in {ToggleApplyResult(c, ok, This)} : Finish(c, o)
    /\ UNCHANGED <<_proxy, _monitorsChangedId, _makePrimaryDialog, svcSerial,
                   savedConnector>>

ToggleApplyReply == \E c \in calls, ok \in BOOLEAN : ToggleApplyStep(c, ok)

\* _makePrimary from the reply of its fetch to its submission or its end.
MakePrimaryAfterFetch(c, o1) ==
    \E layout \in {PlanMakePrimary(o1.monitors, o1.logicalMonitors, o1.snapshot,
                                    c.conn)} :
        IF _proxy = Null \/ Len(layout) = 0 THEN Finish(c, o1)
        ELSE Continue(c, Call("mp", "apply", o1.serial, FALSE, FALSE, layout,
                              c.conn), o1)

MakePrimaryFetchStep(c, ok, st) ==
    /\ c.op = "mp" /\ c.stage = "fetch"
    /\ \E o1 \in {getMonitorConfig(This, ok, st, ReplySerial(c))} :
          MakePrimaryAfterFetch(c, o1)
    /\ UNCHANGED <<_proxy, _monitorsChangedId, _makePrimaryDialog, svcSerial,
                   savedConnector>>

MakePrimaryFetchReply(W) ==
    \E c \in calls, ok \in BOOLEAN, st \in W : MakePrimaryFetchStep(c, ok, st)

\* A make-primary completion that treats a rejection as the toggle does.
MakePrimaryApplyResultDisables(ok, o) ==
    IF _proxy = Null THEN o
    ELSE IF ok THEN scheduleConfigRefresh(o, "plain")
    ELSE scheduleConfigRefresh(disableToggle(o), "onSuccess")

\* ApplyMonitorsConfig of a make-primary completes.
MakePrimaryApplyResult(ok, o) ==
    IF _proxy # Null /\ ok THEN scheduleConfigRefresh(o, "plain") ELSE o

MakePrimaryApplyStep(c, ok) ==
    /\ c.op = "mp" /\ c.stage = "apply"
    /\ \E o \in {MakePrimaryApplyResult(ok, This)} : Finish(c, o)
    /\ UNCHANGED <<_proxy, _monitorsChangedId, _makePrimaryDialog, svcSerial,
                   savedConnector>>

MakePrimaryApplyReply == \E c \in calls, ok \in BOOLEAN : MakePrimaryApplyStep(c, ok)

\* The reconciliation timer fires.
RefreshTimerFires ==
    \E callback \in {"plain", "onSuccess"} :
        /\ sources[callback] > 0
        /\ Cardinality(BgFetches) < MaxPending
        /\ sources' = [sources EXCEPT ![callback] = @ - 1]
        /\ _configRefreshTimeoutId' = "none"
        /\ calls' = IF _proxy = Null THEN calls
                    ELSE calls \cup {FetchCall("bg", "fetch",
                                               callback = "onSuccess", Null)}
    /\ UNCHANGED <<_proxy, _monitorsChangedId, _monitors, _logicalMonitors, _serial,
                   _snapshot, _monitor, _toggling, _primaryDialogTimeoutId,
                   _makePrimaryDialog, checked, sensitive, svcSerial, savedConnector>>

\* The prompt timer fires: _showMakePrimaryDialog(this._monitor).
PromptTimerFires ==
    /\ sources["prompt"] > 0
    /\ sources' = [sources EXCEPT !["prompt"] = @ - 1]
    /\ _primaryDialogTimeoutId' = FALSE
    /\ _makePrimaryDialog' = IF _proxy = Null THEN _makePrimaryDialog ELSE _monitor
    /\ UNCHANGED <<_proxy, _monitorsChangedId, _monitors, _logicalMonitors, _serial,
                   _snapshot, _monitor, _toggling, _configRefreshTimeoutId,
                   checked, sensitive, calls, svcSerial, savedConnector>>

\* The prompt's Yes button: close, then _makePrimary up to its first await.
DialogYes ==
    /\ _makePrimaryDialog # Null
    /\ \A c \in calls : c.op # "mp"
    /\ _makePrimaryDialog' = Null
    /\ calls' = IF _proxy = Null THEN calls
                ELSE calls \cup {FetchCall("mp", "fetch", FALSE, _makePrimaryDialog)}
    /\ UNCHANGED <<_proxy, _monitorsChangedId, _monitors, _logicalMonitors, _serial,
                   _snapshot, _monitor, _toggling, _configRefreshTimeoutId,
                   _primaryDialogTimeoutId, checked, sensitive, svcSerial,
                   savedConnector, sources>>

\* The prompt's No button.
DialogNo ==
    /\ _makePrimaryDialog # Null
    /\ _makePrimaryDialog' = Null
    /\ UNCHANGED <<_proxy, _monitorsChangedId, _monitors, _logicalMonitors, _serial,
                   _snapshot, _monitor, _toggling, _configRefreshTimeoutId,
                   _primaryDialogTimeoutId, checked, sensitive, calls, svcSerial,
                   savedConnector, sources>>

\* destroy
Destroy ==
    /\ _proxy # Null
    /\ _proxy' = Null
    /\ \E o \in {clearTimeout(clearTimeout(This, "_configRefreshTimeoutId"),
                                "_primaryDialogTimeoutId")} :
          /\ _configRefreshTimeoutId' = o.refreshTimer
          /\ _primaryDialogTimeoutId' = o.promptTimer
          /\ sources' = o.sources
    /\ _makePrimaryDialog' = Null
    /\ _monitorsChangedId' = FALSE
    /\ _monitor' = Null
    /\ _monitors' = <<>>
    /\ _logicalMonitors' = <<>>
    /\ _snapshot' = <<>>
    /\ UNCHANGED <<_serial, _toggling, checked, sensitive, calls, svcSerial,
                   savedConnector>>

\* The service's state changes (another client, hotplug, an applied layout).
ServiceChange ==
    /\ svcSerial < MaxSerial
    /\ svcSerial' = svcSerial + 1
    /\ UNCHANGED <<_proxy, _monitorsChangedId, _monitors, _logicalMonitors, _serial,
                   _snapshot, _monitor, _toggling, _configRefreshTimeoutId,
                   _primaryDialogTimeoutId, _makePrimaryDialog, checked, sensitive,
                   calls, savedConnector, sources>>

\* The service answers a fetch that is in flight: the reply carries the
\* serial current now and is delivered in a later step.
ServiceAnswers ==
    \E c \in calls :
        /\ c.stage \in {"fetch", "refetch"}
        /\ c.serial = 0
        /\ calls' = (calls \ {c}) \cup {[c EXCEPT !.serial = svcSerial]}
        /\ UNCHANGED <<_proxy, _monitorsChangedId, _monitors, _logicalMonitors,
                       _serial, _snapshot, _monitor, _toggling,
                       _configRefreshTimeoutId, _primaryDialogTimeoutId,
                       _makePrimaryDialog, checked, sensitive, svcSerial,
                       savedConnector, sources>>

\* Every handler and continuation of the toggle; the service's serial is fixed.
Next ==
    \/ InitReply
    \/ MonitorsChanged
    \/ Click
    \/ BgFetchReply(CoreStates)
    \/ ToggleFetchReply(CoreStates)
    \/ ToggleRefetchReply(CoreStates)
    \/ ToggleApplyReply
    \/ MakePrimaryFetchReply(CoreStates)
    \/ MakePrimaryApplyReply
    \/ RefreshTimerFires
    \/ PromptTimerFires
    \/ DialogYes
    \/ DialogNo
    \/ Destroy

Spec == Init /\ [][Next]_vars

\* The same with a service whose serial advances.
SerialNext == Next \/ ServiceChange

SerialSpec == Init /\ [][SerialNext]_vars

\* Every fetch and submission of a toggle operation eventually completes: a
\* D-Bus call is answered or times out.
ToggleNext ==
    \/ InitReply
    \/ MonitorsChanged
    \/ Click
    \/ BgFetchReply(CoreStates)
    \/ ToggleFetchReply(CoreStates)
    \/ ToggleRefetchReply(CoreStates)
    \/ ToggleApplyReply
    \/ Destroy

FairSpec ==
    /\ Init /\ [][ToggleNext]_vars
    /\ WF_vars(ToggleFetchReply(CoreStates))
    /\ WF_vars(ToggleRefetchReply(CoreStates))
    /\ WF_vars(ToggleApplyReply)

\* The toggle operation alone, over every state the service can report: no
\* notification, timer or prompt interleaves, so the registry and the
\* snapshot change only in the toggle's own fetches.
PlanNext ==
    \/ Click
    \/ ToggleFetchReply(ServiceStates)
    \/ ToggleRefetchReply(ServiceStates)
    \/ ToggleApplyReply

PlanSpec == Init /\ [][PlanNext]_vars

\* The toggle, the prompt and the make-primary operation over the layout
\* states: every way a layout is planned and submitted.
LayoutNext ==
    \/ Click
    \/ ToggleFetchReply(LayoutStates)
    \/ ToggleRefetchReply(LayoutStates)
    \/ ToggleApplyReply
    \/ PromptTimerFires
    \/ DialogYes
    \/ DialogNo
    \/ MakePrimaryFetchReply(LayoutStates)
    \/ MakePrimaryApplyReply

LayoutSpec == Init /\ [][LayoutNext]_vars

\* The toggle operation alone over the layout states: what it plans from
\* every registry and snapshot its own fetches can produce.
PlanLayoutNext ==
    \/ Click
    \/ ToggleFetchReply(LayoutStates)
    \/ ToggleRefetchReply(LayoutStates)
    \/ ToggleApplyReply

PlanLayoutSpec == Init /\ [][PlanLayoutNext]_vars

\* Fetches started by notifications, by the reconciliation timer and by the
\* toggle operation, in flight together while the service's serial advances;
\* each reply carries the serial of the moment the service answered.
RaceNext ==
    \/ InitReply
    \/ MonitorsChanged
    \/ Click
    \/ BgFetchReply(CoreStates)
    \/ ToggleFetchReply(CoreStates)
    \/ ToggleRefetchReply(CoreStates)
    \/ ToggleApplyReply
    \/ RefreshTimerFires
    \/ ServiceChange
    \/ ServiceAnswers

RaceSpec == Init /\ [][RaceNext]_vars

(***************************************************************************)
(* The pure helpers called on their own.  A call is a record of calls with *)
(* stage "call" holding the argument; its return adds the record with      *)
(* stage "return" holding the result.  fixPrimaryFlags and                 *)
(* normalizePositions take a list of logical monitors; _resolveModeId      *)
(* takes a connector and reads this._monitors and this._snapshot, and its  *)
(* result is held in the assignment [conn, mode] built from it.            *)
(***************************************************************************)
MaxLms == 3
MaxModes == 3

FnConnectors == <<"A", "B", "C", "D">>

FnModeIds == <<"m1", "m2", "m3", "m4">>

\* Lists of up to MaxLms logical monitors, the i-th on the i-th connector
\* at scale i, with every choice of x in {-1, 0, 2}, y in {0, 1} and primary
\* flag.
FnLayouts ==
    UNION {{[i \in 1..n |-> LM(f[i][1], f[i][2], i, 0, f[i][3], <<FnConnectors[i]>>)] :
               f \in [1..n -> {-1, 0, 2} \X {0, 1} \X BOOLEAN]} : n \in 0..MaxLms}

\* Mode lists of up to MaxModes modes with every choice of the is-current
\* and is-preferred flags.
FnModeLists ==
    UNION {{[i \in 1..n |-> [id |-> FnModeIds[i], w |-> i, cur |-> f[i][1],
                            pref |-> f[i][2]]] :
               f \in [1..n -> BOOLEAN \X BOOLEAN]} : n \in 0..MaxModes}

\* Physical monitors: A with the mode list, alone or after B.
FnMonitors ==
    UNION {{<<[conn |-> "A", modes |-> ms]>>,
            <<PM("B", TRUE), [conn |-> "A", modes |-> ms]>>} : ms \in FnModeLists}

\* Snapshots: empty, or B and A with A's mode id undefined, one of the ids a
\* mode list can offer, or an id no list offers.
FnSnapshots ==
    {<<>>} \cup
    {<<[conn |-> "B", x |-> 0, y |-> 0, scale |-> 1, transform |-> 0,
        isPrimary |-> TRUE, modeId |-> "m1"],
       [conn |-> "A", x |-> 3, y |-> 0, scale |-> 1, transform |-> 0,
        isPrimary |-> FALSE, modeId |-> m]>> : m \in {Null, "m1", "m2", "m3", "m9"}}

FnCall(op, arg, connector) == Call(op, "call", 0, FALSE, FALSE, arg, connector)

FnInit ==
    /\ _proxy = "proxy"
    /\ _monitorsChangedId = FALSE
    /\ _logicalMonitors = <<>>
    /\ _serial = 0
    /\ _monitor = Null
    /\ _toggling = FALSE
    /\ _configRefreshTimeoutId = "none"
    /\ _primaryDialogTimeoutId = FALSE
    /\ _makePrimaryDialog = Null
    /\ checked = FALSE
    /\ sensitive = TRUE
    /\ svcSerial = 1
    /\ savedConnector = ""
    /\ sources = [k \in SourceKinds |-> 0]
    /\ \/ /\ _monitors = <<>>
          /\ _snapshot = <<>>
          /\ \E op \in {"fixPrimaryFlags", "normalizePositions"}, lms \in FnLayouts :
                calls = {FnCall(op, lms, Null)}
       \/ /\ _monitors \in FnMonitors
          /\ _snapshot \in FnSnapshots
          /\ \E connector \in {"A", "C"} :
                calls = {FnCall("resolveModeId", <<>>, connector)}

\* The call of op that has not returned yet.
FnPending(c, op) ==
    /\ c.op = op /\ c.stage = "call"
    /\ \A d \in calls : d.stage # "return"

FnReturn(c, result) ==
    /\ calls' = calls \cup {[c EXCEPT !.stage = "return", !.layout = result]}
    /\ UNCHANGED <<_proxy, _monitorsChangedId, _monitors, _logicalMonitors, _serial,
                   _snapshot, _monitor, _toggling, _configRefreshTimeoutId,
                   _primaryDialogTimeoutId, _makePrimaryDialog, checked, sensitive,
                   svcSerial, savedConnector, sources>>

FixPrimaryFlagsReturns ==
    \E c \in calls :
        FnPending(c, "fixPrimaryFlags") /\ FnReturn(c, fixPrimaryFlags(c.layout))

NormalizePositionsReturns ==
    \E c \in calls :
        FnPending(c, "normalizePositions") /\ FnReturn(c, normalizePositions(c.layout))

ResolveModeIdReturns ==
    \E c \in calls :
        /\ FnPending(c, "resolveModeId")
        /\ FnReturn(c, <<[conn |-> c.conn,
                          mode |-> resolveModeId(_monitors, _snapshot, c.conn)]>>)

FnNext ==
    \/ FixPrimaryFlagsReturns
    \/ NormalizePositionsReturns
    \/ ResolveModeIdReturns

FnSpec == FnInit /\ [][FnNext]_vars

(***************************************************************************)
(* Properties.                                                             *)
(***************************************************************************)
Submissions == {c \in calls : c.stage = "apply"}

ToggleCalls == {c \in calls : c.op = "toggle"}

MakePrimaryCalls == {c \in calls : c.op = "mp"}

\* C1: every layout passed to ApplyMonitorsConfig, by a toggle or by a
\* make-primary operation, has exactly one primary logical monitor.
C1_ExactlyOnePrimary == \A c \in Submissions : NumPrimary(c.layout) = 1

\* C2: every submission carries the serial returned by the fetch the same
\* operation performed before planning (a fetch reply carries the service's
\* serial current at the reply), never a serial cached from an earlier fetch.
C2_SubmitsFetchedSerial ==
    [][\A c \in calls' \ calls : c.stage = "apply" => c.serial = svcSerial]_vars

\* A step that ingests a successful fetch reply reporting full coverage.
IngestsFullCoverage ==
    /\ \E c \in calls \ calls' : c.stage \in {"fetch", "refetch"}
    /\ allActive(_monitors', _logicalMonitors')
    /\ _snapshot' = buildSnapshot(_monitors', _logicalMonitors')

Teardown == _proxy # Null /\ _proxy' = Null

\* C3: the snapshot changes only in a step that ingests a successful fetch
\* reply with full coverage, or at teardown; every other step (fetches
\* without full coverage, failed fetches, disable, enable and make-primary
\* operations) leaves it unchanged.
C3_SnapshotOnlyOnFullCoverage ==
    [][_snapshot' # _snapshot => (IngestsFullCoverage \/ Teardown)]_vars

\* A snapshot has survived the ingest of a state without full coverage.
C3_Witness ==
    /\ _proxy # Null
    /\ Len(_snapshot) > 1
    /\ Len(_monitors) > 0
    /\ ~allActive(_monitors, _logicalMonitors)

\* C5: a click while _toggling is true changes nothing (no fetch, no
\* submission); a toggle sequence is entered only while the flag is false;
\* at most one toggle sequence is in flight and the flag is true for all of it.
C5_SingleFlight ==
    /\ [](Cardinality(ToggleCalls) <= 1 /\ (ToggleCalls # {} => _toggling))
    /\ [][/\ (Click /\ _toggling) => UNCHANGED vars
          /\ (\E c \in calls' \ calls : c.op = "toggle" /\ c.stage = "fetch")
                => (~_toggling /\ _toggling')]_vars

\* The snapshot mode id of a connector is among the modes it offers.
SnapModeOffered(monitors, snap, connector) ==
    /\ PhysIndex(monitors, connector) # 0
    /\ SnapIndex(snap, connector) # 0
    /\ \E i \in 1..Len(monitors[PhysIndex(monitors, connector)].modes) :
          monitors[PhysIndex(monitors, connector)].modes[i].id =
              snap[SnapIndex(snap, connector)].modeId

\* A logical monitor of the layout holds the connector with the x, y, scale,
\* transform and isPrimary of its snapshot entry.
AsInSnapshot(layout, snap, connector) ==
    LET s == snap[SnapIndex(snap, connector)]
    IN  \E i \in 1..Len(layout) :
            /\ FirstConn(layout[i]) = connector
            /\ layout[i].x = s.x /\ layout[i].y = s.y
            /\ layout[i].scale = s.scale /\ layout[i].transform = s.transform
            /\ layout[i].isPrimary = s.isPrimary

\* C4: with a full-coverage snapshot of two connectors, after an accepted
\* disable of the selected connector (checked false, the timer of the accepted
\* submission still pending), an enable of it whose snapshot mode id is still
\* offered submits a layout that has it with the x, y, scale, transform and
\* isPrimary of its snapshot entry.
C4_RoundTrip ==
    [][\A c \in calls' \ calls :
          (/\ c.op = "toggle" /\ c.stage = "apply" /\ ~c.isActive
           /\ ~checked /\ _configRefreshTimeoutId = "plain"
           /\ Len(_snapshot') = 2
           /\ SnapModeOffered(_monitors', _snapshot', _monitor'))
          => AsInSnapshot(c.layout, _snapshot', _monitor')]_vars

\* C6: every started toggle operation eventually ends with _toggling false,
\* given that each of its fetches and its submission eventually completes.
C6_ToggleEnds == _toggling ~> ~_toggling

\* A toggle operation has ended after a rejected submission.
C6_Witness ==
    /\ ~_toggling /\ ToggleCalls = {}
    /\ _configRefreshTimeoutId = "onSuccess"
    /\ ~sensitive

\* A toggle sequence is past its fetch, with the flag set.
C5_Witness == _toggling /\ \E c \in ToggleCalls : c.stage = "apply"

\* C7: at most one toggle or make-primary sequence is in flight at any time.
C7_OneSequenceInFlight == Cardinality(ToggleCalls \cup MakePrimaryCalls) <= 1

\* C8: a change notification that arrives while a toggle or make-primary
\* operation is in flight starts no fetch; one that arrives while no
\* operation is in flight and the client is live starts a fetch.
C8_NotificationsDropped ==
    [][MonitorsChanged =>
          /\ (ToggleCalls \cup MakePrimaryCalls # {} => calls' = calls)
          /\ (ToggleCalls \cup MakePrimaryCalls = {} /\ _proxy # Null
                => \E c \in calls' \ calls : c.op = "bg" /\ c.stage = "fetch")]_vars

\* C9: when a toggle submission is rejected on a live client, right after it
\* the toggle is Disabled (checked and sensitive false), the reconciliation
\* timer is pending, no submission was added and the prompt timer is as it was.
C9_RejectedSubmission ==
    [][\A c \in calls :
          (_proxy # Null /\ ToggleApplyStep(c, FALSE)) =>
              /\ ~checked' /\ ~sensitive'
              /\ _configRefreshTimeoutId' # "none"
              /\ Submissions' \subseteq Submissions \ {c}
              /\ _primaryDialogTimeoutId' = _primaryDialogTimeoutId]_vars

\* The state right after a rejected toggle submission.
C9_Witness ==
    /\ _proxy # Null
    /\ ~checked /\ ~sensitive /\ ~_toggling
    /\ _configRefreshTimeoutId = "onSuccess"

\* A step that ingests a successful fetch reply.
IngestsReply ==
    \E c \in calls \ calls', st \in CoreStates \cup ServiceStates :
        /\ c.stage \in {"fetch", "refetch"}
        /\ LET o == Ingest(This, st, svcSerial)
           IN  /\ _monitors' = o.monitors
               /\ _logicalMonitors' = o.logicalMonitors
               /\ _serial' = o.serial
               /\ _snapshot' = o.snapshot
               /\ _monitor' = o.monitor
               /\ checked' = o.checked

\* C10: sensitive goes from false to true only in a step that ingests a
\* successful fetch reply; in particular the toggle stays insensitive when
\* the reconciliation fetch scheduled after a rejected submission fails.
C10_ReenabledOnlyByFetch ==
    [][/\ (~sensitive /\ sensitive') => IngestsReply
       /\ \A c \in calls, st \in CoreStates :
             (~sensitive /\ c.onSuccess /\ BgFetchStep(c, FALSE, st)) => ~sensitive']_vars

\* C11: on a live client a failed fetch, whatever started it, leaves the
\* toggle Disabled (sensitive and checked false), and a successful fetch
\* leaves sensitive true (for the first fetch of a toggle operation: unless
\* the planning that follows in the same turn disables the toggle).
C11_FetchFailureDisables ==
    [][\A c \in calls, st \in CoreStates :
          /\ _proxy # Null =>
                /\ BgFetchStep(c, FALSE, st) => (~sensitive' /\ ~checked')
                /\ BgFetchStep(c, TRUE, st) => sensitive'
                /\ MakePrimaryFetchStep(c, FALSE, st) => (~sensitive' /\ ~checked')
                /\ MakePrimaryFetchStep(c, TRUE, st) => sensitive'
                /\ \A xmlConf \in XmlConfs :
                      /\ ToggleFetchStep(c, FALSE, st, xmlConf)
                            => (~sensitive' /\ ~checked')
                      /\ ToggleFetchStep(c, TRUE, st, xmlConf)
                            => (sensitive' \/ ToggleCalls' = {})]_vars

\* C12: no submission, of a toggle or of a make-primary operation, carries
\* an empty list of logical monitors.
C12_NeverEmpty == \A c \in Submissions : Len(c.layout) > 0

\* An enable found nothing to restore and is in its reconciliation fetch.
C12_Witness ==
    /\ _monitor # Null
    /\ ~IsAssigned(_logicalMonitors, _monitor)
    /\ \E c \in ToggleCalls : c.stage = "refetch"
    /\ Submissions = {}

\* C13: every submitted layout has min(x) = 0 and min(y) = 0.
C13_Normalized ==
    \A c \in Submissions :
        Len(c.layout) > 0 =>
            /\ MinOf({c.layout[i].x : i \in 1..Len(c.layout)}) = 0
            /\ MinOf({c.layout[i].y : i \in 1..Len(c.layout)}) = 0

\* A disable of the top-left monitor of three is submitted: the two that
\* remain were shifted.
C13_Witness ==
    /\ Len(_logicalMonitors) = 3
    /\ \E c \in ToggleCalls :
          c.stage = "apply" /\ c.isActive /\ Len(c.layout) = 2

\* The connector is the only one assigned in the logical monitors.
OnlyAssigned(lms, connector) ==
    /\ IsAssigned(lms, connector)
    /\ \A i \in 1..Len(lms) : Conns(lms[i]) \subseteq {connector}

\* C14: when the selected connector is the only one assigned in the fetched
\* logical monitors, the toggle operation adds no submission and goes to its
\* reconciliation fetch (the NoMonitorsRemaining abort).
C14_SoleMonitorNotDisabled ==
    [][\A c \in calls :
          (/\ c.op = "toggle" /\ c.stage = "fetch" /\ c \notin calls'
           /\ _proxy # Null
           /\ OnlyAssigned(_logicalMonitors', _monitor'))
          => /\ Submissions' \subseteq Submissions
             /\ \E d \in calls' \ calls : d.op = "toggle" /\ d.stage = "refetch"]_vars

\* The abort of a disable of the sole monitor is in its reconciliation fetch.
C14_Witness ==
    /\ OnlyAssigned(_logicalMonitors, _monitor)
    /\ \E c \in ToggleCalls : c.stage = "refetch"

\* C15: a toggle operation whose planning fails (it leaves its first fetch
\* on a live client without adding a submission) goes to one reconciliation
\* fetch, after which it ends, and if its first fetch succeeded the toggle is
\* still sensitive.
C15_PlanningFailureRefetches ==
    [][\A c \in calls :
          /\ (/\ c.op = "toggle" /\ c.stage = "fetch" /\ c \notin calls'
               /\ _proxy # Null
               /\ Submissions' \subseteq Submissions)
              => /\ \E d \in calls' \ calls : d.op = "toggle" /\ d.stage = "refetch"
                 /\ \A st \in LayoutStates, xmlConf \in XmlConfs :
                       (st.mons = _monitors' /\ ToggleFetchStep(c, TRUE, st, xmlConf))
                           => sensitive'
          /\ (c.op = "toggle" /\ c.stage = "refetch" /\ c \notin calls')
              => ToggleCalls' = {}]_vars

\* C16: when the first fetch of a toggle on a live client leaves the selected
\* connector unassigned (an enable) and no mode can be resolved for it, the
\* toggle is insensitive afterwards and no submission is added, with or
\* without a usable snapshot.
C16_UnresolvedSelectedDisables ==
    [][\A c \in calls :
          (/\ c.op = "toggle" /\ c.stage = "fetch" /\ c \notin calls'
           /\ _proxy # Null
           /\ ~IsAssigned(_logicalMonitors', _monitor')
           /\ resolveModeId(_monitors', _snapshot', _monitor') = Null)
          => (~sensitive' /\ Submissions' \subseteq Submissions)]_vars

\* C17: after teardown every step (the continuation of a fetch, of a
\* submission or of a timer that was pending at teardown, or a handler) adds
\* no call, schedules no timer, shows no prompt and leaves checked,
\* sensitive, the cached registry and the snapshot as they are.
C17_TeardownNoOp ==
    [][_proxy = Null =>
          /\ calls' \subseteq calls
          /\ UNCHANGED <<sources, _configRefreshTimeoutId, _primaryDialogTimeoutId,
                         _makePrimaryDialog, checked, sensitive, _monitors,
                         _logicalMonitors, _serial, _snapshot>>]_vars

\* The initial fetch was still pending at teardown and has completed since:
\* nothing was ever ingested and nothing disabled the toggle.
C17_Witness == _proxy = Null /\ calls = {} /\ _serial = 0 /\ sensitive

\* C18: at most one reconciliation timer and at most one prompt timer are
\* outstanding, the outstanding one is the tracked one, and after teardown
\* none is outstanding.
C18_OneTimerPerKind ==
    /\ sources["plain"] + sources["onSuccess"] <= 1
    /\ sources["prompt"] <= 1
    /\ (_configRefreshTimeoutId # "none") <=> (sources["plain"] + sources["onSuccess"] = 1)
    /\ _primaryDialogTimeoutId <=> (sources["prompt"] = 1)
    /\ _proxy = Null => \A k \in SourceKinds : sources[k] = 0

\* A reconciliation timer with onSuccess and a prompt timer are outstanding:
\* the prompt timer of an enable, then a rejected submission.
C18_Witness == sources["onSuccess"] = 1 /\ sources["prompt"] = 1

\* C19: the prompt timer is armed only in the step that completes the
\* successful submission of an enable on a live client; the prompt is
\* presented only by that timer firing on a live client, and no prompt is
\* open after teardown.
C19_PromptOnlyAfterEnable ==
    [][/\ sources'["prompt"] > sources["prompt"] =>
              /\ _proxy # Null
              /\ \E c \in calls : ~c.isActive /\ ToggleApplyStep(c, TRUE)
       /\ (_makePrimaryDialog' # Null /\ _makePrimaryDialog' # _makePrimaryDialog) =>
              /\ _proxy # Null
              /\ sources["prompt"] = 1
              /\ PromptTimerFires
       /\ _proxy' = Null => _makePrimaryDialog' = Null]_vars

C19_Witness == _makePrimaryDialog # Null /\ checked

\* C20: the step in which a make-primary submission is rejected removes the
\* call and changes nothing else: checked, sensitive, the registry, the
\* snapshot and the timers are as before and no reconciliation fetch is
\* scheduled.
C20_MakePrimaryRejectionFrame ==
    [][\A c \in calls :
          MakePrimaryApplyStep(c, FALSE) =>
              /\ calls' = calls \ {c}
              /\ UNCHANGED <<sources, _configRefreshTimeoutId, _primaryDialogTimeoutId,
                             checked, sensitive, _monitors, _logicalMonitors,
                             _serial, _snapshot, _toggling>>]_vars

\* A make-primary submission is in flight on a live, sensitive toggle with no
\* reconciliation timer outstanding: a rejection here must schedule none.
C20_Witness ==
    /\ _proxy # Null /\ sensitive /\ checked
    /\ _configRefreshTimeoutId = "none"
    /\ \E c \in MakePrimaryCalls : c.stage = "apply"

\* C21: the submission a toggle makes carries isActive, the activity of the
\* selected connector in the registry at the decision step; when that
\* submission succeeds on a live client, checked is its negation and exactly
\* one reconciliation timer is outstanding.
C21_OptimisticFlip ==
    [][\A c \in calls :
          /\ (c.op = "toggle" /\ c.stage = "fetch" /\ c \notin calls') =>
                 \A d \in Submissions' \ Submissions :
                     d.isActive = IsAssigned(_logicalMonitors', _monitor')
          /\ (_proxy # Null /\ ToggleApplyStep(c, TRUE)) =>
                 /\ checked' = ~c.isActive
                 /\ _configRefreshTimeoutId' # "none"
                 /\ sources'["plain"] + sources'["onSuccess"] = 1]_vars

\* A disable has succeeded: unchecked and sensitive although the registry
\* still shows the selected connector active, with the plain timer pending.
C21_Witness ==
    /\ _proxy # Null /\ ~_toggling
    /\ ~checked /\ sensitive
    /\ IsAssigned(_logicalMonitors, _monitor)
    /\ _configRefreshTimeoutId = "plain"

\* C22: the layout a make-primary operation submits for its target has one
\* logical monitor for each logical monitor of the registry at its decision
\* step, in the same order, with the same x, y, scale and transform, and with
\* isPrimary true exactly on those that hold the target.
C22_MakePrimaryLayout ==
    [][\A c \in calls :
          (c.op = "mp" /\ c.stage = "fetch" /\ c \notin calls') =>
              \A d \in Submissions' \ Submissions :
                  /\ d.conn = c.conn
                  /\ Len(d.layout) = Len(_logicalMonitors')
                  /\ \A i \in 1..Len(d.layout) :
                        /\ d.layout[i].x = _logicalMonitors'[i].x
                        /\ d.layout[i].y = _logicalMonitors'[i].y
                        /\ d.layout[i].scale = _logicalMonitors'[i].scale
                        /\ d.layout[i].transform = _logicalMonitors'[i].transform
                        /\ d.layout[i].isPrimary
                              <=> (c.conn \in Conns(_logicalMonitors'[i]))]_vars

\* A make-primary submission that moves the flag from the first logical
\* monitor of the registry to the second.
C22_Witness ==
    \E c \in MakePrimaryCalls :
        /\ c.stage = "apply"
        /\ Len(c.layout) = 2 /\ Len(_logicalMonitors) = 2
        /\ _logicalMonitors[1].isPrimary
        /\ c.layout[2].isPrimary /\ ~c.layout[1].isPrimary

\* The snapshot entries whose connector is among the physical monitors.
SnapPresent(monitors, snap) ==
    SelectSeq(snap, LAMBDA s : PhysIndex(monitors, s.conn) # 0)

\* C23: when the first fetch of a toggle on a live client leaves the selected
\* connector unassigned and the snapshot usable, the operation submits a
\* layout with one logical monitor per snapshot connector still physically
\* present and no other, each carrying the snapshot's x, y, scale, transform
\* and primary flag and the freshly resolved mode id.
C23_RestoreFromSnapshot ==
    [][\A c \in calls :
          (/\ c.op = "toggle" /\ c.stage = "fetch" /\ c \notin calls'
           /\ _proxy # Null
           /\ ~IsAssigned(_logicalMonitors', _monitor')
           /\ hasSnapshot(_snapshot', _monitor'))
          => \E d \in Submissions' \ Submissions :
                LET present == SnapPresent(_monitors', _snapshot')
                IN  /\ Len(d.layout) = Len(present)
                    /\ \A i \in 1..Len(present) :
                          \E j \in 1..Len(d.layout) :
                              /\ d.layout[j].mons =
                                    <<[conn |-> present[i].conn,
                                       mode |-> resolveModeId(_monitors', _snapshot',
                                                              present[i].conn)]>>
                              /\ d.layout[j].mons[1].mode # Null
                              /\ d.layout[j].x = present[i].x
                              /\ d.layout[j].y = present[i].y
                              /\ d.layout[j].scale = present[i].scale
                              /\ d.layout[j].transform = present[i].transform
                              /\ d.layout[j].isPrimary = present[i].isPrimary]_vars

\* Width of the mode resolved for the first connector of a logical monitor.
ResolvedWidth(monitors, snap, lm) ==
    ModeWidth(monitors, FirstConn(lm), resolveModeId(monitors, snap, FirstConn(lm)))

\* The first fetch of a toggle on a live client ends in the fallback
\* placement: the selected connector is unassigned, no usable snapshot
\* exists and a mode resolves for the selected connector.
FallbackEnable(c) ==
    /\ c.op = "toggle" /\ c.stage = "fetch" /\ c \notin calls'
    /\ _proxy # Null
    /\ ~IsAssigned(_logicalMonitors', _monitor')
    /\ ~hasSnapshot(_snapshot', _monitor')
    /\ resolveModeId(_monitors', _snapshot', _monitor') # Null

\* The submitted layout keeps the registry's logical monitors where they are
\* and appends the selected connector at y = 0, non-primary unless no other
\* monitor is primary.
FallbackKeepsAndAppends(d) ==
    LET n == Len(_logicalMonitors')
    IN  /\ Len(d.layout) = n + 1
        /\ \A i \in 1..n :
              /\ d.layout[i].x = _logicalMonitors'[i].x
              /\ d.layout[i].y = _logicalMonitors'[i].y
              /\ FirstConn(d.layout[i]) = FirstConn(_logicalMonitors'[i])
        /\ FirstConn(d.layout[n + 1]) = _monitor'
        /\ d.layout[n + 1].y = 0
        /\ NumPrimary(_logicalMonitors') > 0 => ~d.layout[n + 1].isPrimary

\* C24 as stated: the selected connector is placed at the exact maximum of
\* x + width / scale over the current logical monitors (0 when there is none).
C24_PlacedAtExactRightEdge ==
    [][\A c \in calls :
          FallbackEnable(c) =>
              \E d \in Submissions' \ Submissions :
                  LET lms == _logicalMonitors'
                      n == Len(lms)
                      x == d.layout[Len(d.layout)].x
                  IN  /\ FallbackKeepsAndAppends(d)
                      /\ \A i \in 1..n :
                            (x - lms[i].x) * lms[i].scale
                                >= ResolvedWidth(_monitors', _snapshot', lms[i])
                      /\ \/ n = 0 /\ x = 0
                         \/ \E i \in 1..n :
                               (x - lms[i].x) * lms[i].scale
                                   = ResolvedWidth(_monitors', _snapshot', lms[i])]_vars

\* C24 amended: the selected connector is placed at the maximum of
\* x + round(width / scale) over the current logical monitors (0 when there
\* is none), the existing logical monitors keep their positions, y = 0, and
\* the new one is non-primary when another monitor is primary.
C24_PlacedAtRoundedRightEdge ==
    [][\A c \in calls :
          FallbackEnable(c) =>
              \E d \in Submissions' \ Submissions :
                  LET lms == _logicalMonitors'
                      n == Len(lms)
                      x == d.layout[Len(d.layout)].x
                  IN  /\ FallbackKeepsAndAppends(d)
                      /\ \A i \in 1..n :
                            x >= lms[i].x
                                 + RoundDiv(ResolvedWidth(_monitors', _snapshot', lms[i]),
                                            lms[i].scale)
                      /\ \/ n = 0 /\ x = 0
                         \/ \E i \in 1..n :
                               x = lms[i].x
                                   + RoundDiv(ResolvedWidth(_monitors', _snapshot', lms[i]),
                                              lms[i].scale)]_vars

\* An enable placed at a rounded edge: A at scale 2 is 3 wide, B goes to x = 2.
C24_Witness ==
    \E c \in ToggleCalls :
        /\ c.stage = "apply" /\ ~c.isActive
        /\ Len(c.layout) = 2
        /\ c.layout[1].scale = 2
        /\ c.layout[2].x = 2 /\ c.layout[2].y = 0
        /\ ~hasSnapshot(_snapshot, _monitor)

\* The first fetch of a toggle on a live client ends in a disable with
\* something left: the selected connector is assigned and some logical
\* monitor holds another connector.
DisableWithRest(c) ==
    /\ c.op = "toggle" /\ c.stage = "fetch" /\ c \notin calls'
    /\ _proxy # Null
    /\ IsAssigned(_logicalMonitors', _monitor')
    /\ \E i \in 1..Len(_logicalMonitors') : Conns(_logicalMonitors'[i]) # {_monitor'}

\* The logical monitors of the registry that hold a connector other than
\* the selected one.
Remaining(lms, connector) == SelectSeq(lms, LAMBDA lm : Conns(lm) # {connector})

\* C25: a disable submits the registry's layout with the selected connector's
\* assignment removed and emptied logical monitors dropped: the other
\* assignments, scale and transform are as fetched; a single remaining
\* logical monitor is at (0, 0), several keep their fetched positions; the
\* primary flags are as fetched unless none remains primary, and then the
\* first remaining one is primary.
C25_DisableLayout ==
    [][\A c \in calls :
          DisableWithRest(c) =>
              \E d \in Submissions' \ Submissions :
                  LET rest == Remaining(_logicalMonitors', _monitor')
                      n == Len(rest)
                  IN  /\ Len(d.layout) = n
                      /\ \A k \in 1..n :
                            /\ Conns(d.layout[k]) = Conns(rest[k]) \ {_monitor'}
                            /\ d.layout[k].scale = rest[k].scale
                            /\ d.layout[k].transform = rest[k].transform
                            /\ d.layout[k].x = IF n = 1 THEN 0 ELSE rest[k].x
                            /\ d.layout[k].y = IF n = 1 THEN 0 ELSE rest[k].y
                            /\ d.layout[k].isPrimary =
                                  IF NumPrimary(rest) > 0 THEN rest[k].isPrimary
                                  ELSE k = 1]_vars

\* The argument and the result of the call of op that has returned.
FnReturned(c, d, op) ==
    /\ c.op = op /\ c.stage = "call"
    /\ d.op = op /\ d.stage = "return"

\* C26: for a list with at least one primary entry, fixPrimaryFlags returns
\* the list with exactly one primary entry, the first that was primary in
\* the argument, every other field as it was, and applying it to the result
\* changes nothing.
C26_FixPrimaryFlags ==
    \A c, d \in calls :
        (FnReturned(c, d, "fixPrimaryFlags") /\ NumPrimary(c.layout) >= 1) =>
            /\ Len(d.layout) = Len(c.layout)
            /\ Cardinality({i \in 1..Len(d.layout) : d.layout[i].isPrimary}) = 1
            /\ \A i \in 1..Len(d.layout) :
                  /\ d.layout[i].isPrimary <=>
                        (c.layout[i].isPrimary
                         /\ \A j \in 1..(i - 1) : ~c.layout[j].isPrimary)
                  /\ [d.layout[i] EXCEPT !.isPrimary = c.layout[i].isPrimary]
                        = c.layout[i]
            /\ fixPrimaryFlags(d.layout) = d.layout

\* A list whose first entry is not primary and that has several primary
\* entries has been repaired.
C26_Witness ==
    \E c, d \in calls :
        /\ FnReturned(c, d, "fixPrimaryFlags")
        /\ NumPrimary(c.layout) >= 2
        /\ ~c.layout[1].isPrimary
        /\ d.layout # c.layout

\* C27: for a non-empty list, normalizePositions returns the list with
\* min(x) = 0 and min(y) = 0, the x and y differences of every pair and
\* every other field as they were, and applying it to the result changes
\* nothing.
C27_NormalizePositions ==
    \A c, d \in calls :
        (FnReturned(c, d, "normalizePositions") /\ Len(c.layout) > 0) =>
            /\ Len(d.layout) = Len(c.layout)
            /\ \A i \in 1..Len(d.layout) : d.layout[i].x >= 0 /\ d.layout[i].y >= 0
            /\ \E i \in 1..Len(d.layout) : d.layout[i].x = 0
            /\ \E i \in 1..Len(d.layout) : d.layout[i].y = 0
            /\ \A i, j \in 1..Len(d.layout) :
                  /\ d.layout[i].x - d.layout[j].x = c.layout[i].x - c.layout[j].x
                  /\ d.layout[i].y - d.layout[j].y = c.layout[i].y - c.layout[j].y
            /\ \A i \in 1..Len(d.layout) :
                  [d.layout[i] EXCEPT !.x = c.layout[i].x, !.y = c.layout[i].y]
                      = c.layout[i]
            /\ normalizePositions(d.layout) = d.layout

\* A list of two with minimum x = -1 and minimum y = 1 has been normalized.
C27_Witness ==
    \E c, d \in calls :
        /\ FnReturned(c, d, "normalizePositions")
        /\ Len(c.layout) = 2
        /\ c.layout[1].x = 2 /\ c.layout[1].y = 1
        /\ c.layout[2].x = -1 /\ c.layout[2].y = 1
        /\ d.layout[1].x = 3 /\ d.layout[2].x = 0
        /\ d.layout[1].y = 0 /\ d.layout[2].y = 0

\* C28: for a connector among the physical monitors, _resolveModeId returns
\* the snapshot's mode id for it when the monitor still offers that mode,
\* else the id of the first mode flagged current, else that of the first
\* mode flagged preferred, else that of the first mode; for a connector that
\* is not among the physical monitors it returns no mode.
C28_ResolveModeIdPriority ==
    \A c, d \in calls :
        FnReturned(c, d, "resolveModeId") =>
            LET r == d.layout[1].mode
                present == {i \in 1..Len(_monitors) : _monitors[i].conn = c.conn}
            IN  IF present = {} THEN r = Null
                ELSE \E p \in present :
                       /\ \A q \in present : p <= q
                       /\ LET modes == _monitors[p].modes
                              n == Len(modes)
                              offered == {modes[i].id : i \in 1..n}
                              snapIds == {_snapshot[i].modeId : i \in
                                             {k \in 1..Len(_snapshot) :
                                                 _snapshot[k].conn = c.conn}}
                              cur == {i \in 1..n : modes[i].cur}
                              pref == {i \in 1..n : modes[i].pref}
                          IN  IF snapIds \cap offered # {} THEN r \in snapIds
                              ELSE IF cur # {}
                              THEN \E i \in cur : r = modes[i].id /\ \A k \in cur : i <= k
                              ELSE IF pref # {}
                              THEN \E i \in pref : r = modes[i].id /\ \A k \in pref : i <= k
                              ELSE IF n > 0 THEN r = modes[1].id
                              ELSE r = Null

\* A resolution that fell through to the preferred mode: the snapshot's
\* mode is no longer offered, no mode is current, the second is preferred.
C28_Witness ==
    \E c, d \in calls :
        /\ FnReturned(c, d, "resolveModeId")
        /\ c.conn = "A"
        /\ Len(_snapshot) = 2 /\ _snapshot[2].modeId = "m9"
        /\ Len(_monitors) = 2 /\ Len(_monitors[2].modes) = 2
        /\ ~_monitors[2].modes[1].cur /\ ~_monitors[2].modes[2].cur
        /\ ~_monitors[2].modes[1].pref /\ _monitors[2].modes[2].pref
        /\ d.layout[1].mode = "m2"

\* C29: the step in which the fetch of a toggle or of a make-primary
\* operation fails on a live client adds no submission.
C29_NoSubmissionAfterFailedFetch ==
    [][\A c \in calls :
          (/\ _proxy # Null
           /\ \E st \in CoreStates :
                 \/ \E xmlConf \in XmlConfs : ToggleFetchStep(c, FALSE, st, xmlConf)
                 \/ MakePrimaryFetchStep(c, FALSE, st))
          => Submissions' \subseteq Submissions]_vars

\* C30: every submission of an enable (a toggle submission with isActive
\* false) carries a layout in which some logical monitor assigns the
\* selected connector.
C30_EnableAssignsSelected ==
    \A c \in Submissions :
        (c.op = "toggle" /\ ~c.isActive) => IsAssigned(c.layout, c.conn)

\* Every connector a registry or a layout of the model can name.
AllConnectors ==
    UNION {{st.mons[i].conn : i \in 1..Len(st.mons)} : st \in LayoutStates}

\* C31: the layout a toggle operation submits assigns every connector other
\* than the selected one if and only if the logical monitors fetched at the
\* start of the operation assigned it.
C31_OthersKeepStatus ==
    [][\A d \in Submissions' \ Submissions :
          d.op = "toggle" =>
              \A k \in AllConnectors \ {_monitor'} :
                  IsAssigned(d.layout, k) <=> IsAssigned(_logicalMonitors', k)]_vars

\* C32: with several fetches in flight and the service's serial advancing,
\* the cached serial never decreases, and the delivery of a fetch reply that
\* carries an older serial than the cached one leaves the cached serial,
\* monitors and logical monitors as they are.
C32_SerialNeverDecreases ==
    [][/\ _serial' >= _serial
       /\ \A c \in calls \ calls' :
             (c.stage \in {"fetch", "refetch"} /\ c.serial # 0 /\ c.serial < _serial)
                 => UNCHANGED <<_serial, _monitors, _logicalMonitors>>]_vars

\* C33: the make-primary prompt is presented (the prompt timer fires on a
\* live client) only while checked is true: a disable or an error that sets
\* checked to false before the delay elapses keeps the prompt scheduled by
\* the earlier enable from being presented.
C33_PromptOnlyWhileChecked ==
    [][(_proxy # Null /\ PromptTimerFires) => checked]_vars
====
